---- MODULE Spec2Model ----
(***************************************************************************)
(* Model of src/etl.py: the Sparkify ETL job.                              *)
(*                                                                         *)
(* The program has three entry points: main(), process_song_data() and     *)
(* process_log_data().  A DataFrame is an unordered multiset of rows and   *)
(* is modelled as a bag (Bags module); a table location under the output   *)
(* root either does not exist or holds a bag of rows.                      *)
(*                                                                         *)
(* Python semantics that decide what is reachable:                         *)
(*  - main, line 113: config['AWS_ACCESS_KEY_ID'] is a section lookup of   *)
(*    ConfigParser.  It raises KeyError when dl.cfg has no such section    *)
(*    and otherwise returns a SectionProxy, which os.environ refuses       *)
(*    (TypeError: str expected).  main never gets past line 113.           *)
(*  - process_log_data, line 59: df is a local variable of the function    *)
(*    (it is assigned in it).  spark.read.json(log_data) is evaluated,     *)
(*    then the argument df.page of .filter(...) reads df before it is      *)
(*    bound: UnboundLocalError.  Lines 62-104 are never executed, so the   *)
(*    model has no action for them.                                        *)
(*                                                                         *)
(* A Spark call (a read, an analysis, a write) may fail; that is the       *)
(* environment's choice and is modelled as nondeterminism.                 *)
(***************************************************************************)
EXTENDS Integers, FiniteSets, Bags, TLC

VARIABLES
    pc,        \* the statement the running function is at ("idle" between calls)
    status,    \* "idle" | "running" | "done" | "failed"
    call,      \* the entry point of the current invocation
    error,     \* the exception that ended the invocation, "none" otherwise
    df,        \* process_song_data's df (line 27)
    logRead,   \* the value of spark.read.json(log_data) at line 59
    out,       \* the five table locations under output_data
    pre,       \* history: out when the current invocation started
    written    \* history: the tables whose write completed in this invocation

vars == <<pc, status, call, error, df, logRead, out, pre, written>>

\* Bounds of the model: the number of raw records at an input location.
MaxRecords == 3
MaxEvents == 2

NULL == "null"

Tables == {"songs", "artists", "users", "time", "songplays"}

\* A table location that does not exist.
Absent == [exists |-> FALSE, rows |-> EmptyBag]

\* The raw song/artist metadata records that input_data + 'song_data' may hold.
RawSongRecords ==
    [song_id : {NULL, "SO1"}, title : {"T1", "T2"}, artist_id : {NULL, "AR1"},
     year : {2000}, duration : {200},
     artist_name : {"N1", "N2"}, artist_location : {"L1"},
     artist_latitude : {NULL}, artist_longitude : {NULL}]

\* The raw event records that input_data + 'log_data' may hold.
RawEventRecords ==
    [page : {"NextSong", "Home"}, song : {"T1", "T3"}, userId : {NULL, "U1"},
     firstName : {"F1"}, lastName : {"LN1"}, gender : {"F"}, level : {"free"},
     ts : {1541440000}, sessionId : {1}, location : {"L1"},
     userAgent : {"UA1"}]

RECURSIVE BagsUpTo(_, _)
\* Every bag of at most n elements of S.
BagsUpTo(S, n) ==
    IF n = 0 THEN {EmptyBag}
    ELSE LET B == BagsUpTo(S, n - 1)
         IN  B \cup {b (+) SetToBag({x}) : b \in B, x \in S}

SongInputs == BagsUpTo(RawSongRecords, MaxRecords)
LogInputs == BagsUpTo(RawEventRecords, MaxEvents)

\* song_table_schema (line 30) and artist_table_schema (line 40); the order of
\* the columns is not modelled.
song_table_schema == {"song_id", "title", "artist_id", "year", "duration"}
artist_table_schema ==
    {"artist_id", "artist_name", "artist_location", "artist_latitude",
     "artist_longitude"}

\* A mutation of DropNa: how='all' (a row goes only when every column of the
\* subset is null).
DropNaAll(d, subset) ==
    LET keep == {r \in DOMAIN d : \E c \in subset : r[c] # NULL}
    IN  [r \in keep |-> d[r]]

\* DataFrame.dropna(how='any', subset=...): the rows with no null in a column
\* of subset, each as often as before.
DropNa(d, subset) ==
    LET keep == {r \in DOMAIN d : \A c \in subset : r[c] # NULL}
    IN  [r \in keep |-> d[r]]

\* DataFrame.select(schema): every row projected to the schema's columns; rows
\* that project to the same row add up.
Select(d, schema) ==
    LET Row(r) == [c \in schema |-> r[c]]
        rows == {Row(r) : r \in DOMAIN d}
    IN  [w \in rows |->
            BagCardinality([r \in {x \in DOMAIN d : Row(x) = w} |-> d[r]])]

\* A mutation of DropDuplicates: no deduplication.
KeepDuplicates(t) == t

\* DataFrame.dropDuplicates() with no column list: one copy of every row that
\* occurs, rows compared on all columns.
DropDuplicates(t) == [w \in DOMAIN t |-> 1]

\* songs_table, lines 31-33.
SongsTable(d) ==
    DropDuplicates(Select(DropNa(d, {"song_id", "artist_id"}), song_table_schema))

\* artists_table, lines 41-43.
ArtistsTable(d) ==
    DropDuplicates(Select(DropNa(d, {"song_id", "artist_id"}), artist_table_schema))

\* A mutation of Overwrite: mode('append').
OverwriteAppends(old, new) == [exists |-> TRUE, rows |-> old.rows (+) new]

\* write.mode('overwrite')...parquet(path), completed: the location holds the
\* rows of the table written and nothing else.  partitionBy only lays the rows
\* out in directories.
Overwrite(old, new) == [exists |-> TRUE, rows |-> new]

\* The states a write that raised may leave its location in: untouched, deleted
\* (overwrite removes the old files first), or holding some of the new rows.
FailedWrite(old, new) ==
    {old, Absent} \cup {[exists |-> TRUE, rows |-> p] : p \in SubBag(new)}

Init ==
    /\ pc = "idle"
    /\ status = "idle"
    /\ call = "none"
    /\ error = "none"
    /\ df = EmptyBag
    /\ logRead = EmptyBag
    /\ out = [t \in Tables |-> Absent]
    /\ pre = [t \in Tables |-> Absent]
    /\ written = {}

\* main(), lines 110-113: the assignment to os.environ raises (KeyError or
\* TypeError, by the content of dl.cfg) before any phase is called.
Main ==
    /\ status = "idle"
    /\ pc' = "main_113"
    /\ status' = "failed"
    /\ call' = "main"
    /\ error' \in {"KeyError", "TypeError"}
    /\ UNCHANGED <<df, logRead, out, pre, written>>

\* process_song_data(spark, input_data, output_data) is called.
CallSongData ==
    /\ status = "idle"
    /\ pc' = "song_27"
    /\ status' = "running"
    /\ call' = "process_song_data"
    /\ UNCHANGED <<error, df, logRead, out, pre, written>>

\* Line 27: df = spark.read.json(song_data).
SongRead ==
    /\ status = "running" /\ pc = "song_27"
    /\ df' \in SongInputs
    /\ pc' = "song_35"
    /\ UNCHANGED <<status, call, error, logRead, out, pre, written>>

\* Line 27 raises.
SongReadFail ==
    /\ status = "running" /\ pc = "song_27"
    /\ status' = "failed"
    /\ error' = "SparkError"
    /\ UNCHANGED <<pc, call, df, logRead, out, pre, written>>

\* Lines 31-37: songs_table is built and written.
SongsWrite ==
    /\ status = "running" /\ pc = "song_35"
    /\ out' = [out EXCEPT !["songs"] = Overwrite(@, SongsTable(df))]
    /\ written' = written \cup {"songs"}
    /\ pc' = "song_45"
    /\ UNCHANGED <<status, call, error, df, logRead, pre>>

\* Lines 31-37 raise.
SongsWriteFail ==
    /\ status = "running" /\ pc = "song_35"
    /\ \E s \in FailedWrite(out["songs"], SongsTable(df)) :
          out' = [out EXCEPT !["songs"] = s]
    /\ status' = "failed"
    /\ error' = "SparkError"
    /\ UNCHANGED <<pc, call, df, logRead, pre, written>>

\* Lines 41-47: artists_table is built and written; the function returns.
ArtistsWrite ==
    /\ status = "running" /\ pc = "song_45"
    /\ out' = [out EXCEPT !["artists"] = Overwrite(@, ArtistsTable(df))]
    /\ written' = written \cup {"artists"}
    /\ pc' = "song_return"
    /\ status' = "done"
    /\ UNCHANGED <<call, error, df, logRead, pre>>

\* A mutation of ArtistsWriteFail: the failure rolls the songs table back.
ArtistsWriteFailRollback ==
    /\ status = "running" /\ pc = "song_45"
    /\ \E s \in FailedWrite(out["artists"], ArtistsTable(df)) :
          out' = [out EXCEPT !["artists"] = s, !["songs"] = pre["songs"]]
    /\ status' = "failed"
    /\ error' = "SparkError"
    /\ UNCHANGED <<pc, call, df, logRead, pre, written>>

\* Lines 41-47 raise.
ArtistsWriteFail ==
    /\ status = "running" /\ pc = "song_45"
    /\ \E s \in FailedWrite(out["artists"], ArtistsTable(df)) :
          out' = [out EXCEPT !["artists"] = s]
    /\ status' = "failed"
    /\ error' = "SparkError"
    /\ UNCHANGED <<pc, call, df, logRead, pre, written>>

\* process_log_data(spark, input_data, output_data) is called.
CallLogData ==
    /\ status = "idle"
    /\ pc' = "log_59"
    /\ status' = "running"
    /\ call' = "process_log_data"
    /\ UNCHANGED <<error, df, logRead, out, pre, written>>

\* Line 59: spark.read.json(log_data) returns, then df.page raises
\* UnboundLocalError; df is never bound and no later line runs.
LogReadFilter ==
    /\ status = "running" /\ pc = "log_59"
    /\ logRead' \in LogInputs
    /\ status' = "failed"
    /\ error' = "UnboundLocalError"
    /\ UNCHANGED <<pc, call, df, out, pre, written>>

\* Line 59: spark.read.json(log_data) raises.
LogReadFail ==
    /\ status = "running" /\ pc = "log_59"
    /\ status' = "failed"
    /\ error' = "SparkError"
    /\ UNCHANGED <<pc, call, df, logRead, out, pre, written>>

\* The invocation is over (the function returned or the exception left it);
\* the next one starts from whatever the output locations hold.
Exit ==
    /\ status \in {"done", "failed"}
    /\ pc' = "idle"
    /\ status' = "idle"
    /\ call' = "none"
    /\ error' = "none"
    /\ df' = EmptyBag
    /\ logRead' = EmptyBag
    /\ pre' = out
    /\ written' = {}
    /\ UNCHANGED out

Next ==
    \/ Main
    \/ CallSongData
    \/ SongRead
    \/ SongReadFail
    \/ SongsWrite
    \/ SongsWriteFail
    \/ ArtistsWrite
    \/ ArtistsWriteFail
    \/ CallLogData
    \/ LogReadFilter
    \/ LogReadFail
    \/ Exit

Spec == Init /\ [][Next]_vars

(***************************************************************************)
(* The claims.                                                             *)
(***************************************************************************)

\* The invocation of process_log_data is over and no Spark call failed in it.
LogDataEnded ==
    call = "process_log_data" /\ status \in {"done", "failed"} /\ error # "SparkError"

\* The events of d whose page is 'NextSong', each as often as in d.
NextSongEvents(d) ==
    LET keep == {e \in DOMAIN d : e.page = "NextSong"}
    IN  [e \in keep |-> d[e]]

\* A table that was written and holds no row.
EmptyTable == [exists |-> TRUE, rows |-> EmptyBag]

\* The rows of table t have pairwise distinct values in column key.
KeyUnique(t, key) ==
    \A v, w \in DOMAIN out[t].rows :
        /\ out[t].rows[v] = 1
        /\ v[key] = w[key] => v = w

\* Raw record r has neither song_id nor artist_id null.
Complete(r) == r.song_id # NULL /\ r.artist_id # NULL

\* Raw record r projected to the columns of schema.
Projected(r, schema) == [c \in schema |-> r[c]]

\* C1 (as claimed): left-join non-loss.  When process_log_data has ended
\* without a Spark failure, the Songplay table holds as many rows as the input
\* has events with page = 'NextSong'.
C1_LeftJoinNonLoss ==
    LogDataEnded =>
        BagCardinality(out["songplays"].rows)
            = BagCardinality(NextSongEvents(logRead))

\* C3 (as claimed): primary-key uniqueness.  In every dimension table no two
\* rows share the primary key (Song: song_id, Artist: artist_id, User: userId,
\* Time: start_time).
C3_PrimaryKeyUnique ==
    /\ KeyUnique("songs", "song_id")
    /\ KeyUnique("artists", "artist_id")
    /\ KeyUnique("users", "userId")
    /\ KeyUnique("time", "start_time")

\* C3 (amended): full-row uniqueness.  No table holds a row twice; and the Song
\* (Artist) table written by this invocation has a unique song_id (artist_id)
\* exactly when the complete raw records that share the key agree on every
\* projected column.
C3_FullRowUnique ==
    /\ \A t \in Tables : \A w \in DOMAIN out[t].rows : out[t].rows[w] = 1
    /\ "songs" \in written =>
          (KeyUnique("songs", "song_id") <=>
              \A r, q \in {x \in DOMAIN df : Complete(x)} :
                  r.song_id = q.song_id =>
                      Projected(r, song_table_schema) = Projected(q, song_table_schema))
    /\ "artists" \in written =>
          (KeyUnique("artists", "artist_id") <=>
              \A r, q \in {x \in DOMAIN df : Complete(x)} :
                  r.artist_id = q.artist_id =>
                      Projected(r, artist_table_schema) = Projected(q, artist_table_schema))

\* C3 witness: the Song table was written from an input that holds one complete
\* record twice and another complete record with the same song_id and another
\* title: the copies collapsed into one row, the two titles both survive.
C3_Witness ==
    /\ "songs" \in written
    /\ \E r \in DOMAIN df : Complete(r) /\ df[r] >= 2
    /\ \E v, w \in DOMAIN out["songs"].rows : v # w /\ v.song_id = w.song_id

\* C4 (as claimed): whole-run completion.  A run started by main in which no
\* Spark call failed ends successfully with all five tables written.
C4_WholeRunCompletes ==
    (call = "main" /\ status # "running" /\ error # "SparkError") =>
        /\ status = "done"
        /\ written = Tables
        /\ \A t \in Tables : out[t].exists

C6_PlayEventFilter ==
    LogDataEnded =>
        /\ \A w \in DOMAIN out["users"].rows :
              \E e \in DOMAIN NextSongEvents(logRead) : e.userId = w.userId
        /\ NextSongEvents(logRead) = EmptyBag =>
              \A t \in {"users", "time", "songplays"} : out[t] = EmptyTable

C9_JoinResultValues ==
    LogDataEnded =>
        /\ \A e \in DOMAIN NextSongEvents(logRead) :
              \E w \in DOMAIN out["songplays"].rows :
                  /\ w.user_id = e.userId
                  /\ w.session_id = e.sessionId
                  /\ LET match == {s \in DOMAIN out["songs"].rows : s.title = e.song}
                     IN  IF match = {}
                         THEN w.song_id = NULL /\ w.artist_id = NULL
                         ELSE \E s \in match :
                                 w.song_id = s.song_id /\ w.artist_id = s.artist_id
        /\ \A w \in DOMAIN out["songplays"].rows :
              (w.song_id = NULL) <=> (w.artist_id = NULL)

\* The table a failure at statement p leaves in an unspecified state.
FailingTable(p) ==
    IF p = "song_35" THEN {"songs"} ELSE IF p = "song_45" THEN {"artists"} ELSE {}

\* C10: abort without rollback or retry.  A failing step leaves the invocation
\* failed at the statement that failed; a failed invocation executes nothing
\* more (it only exits, the tables as they are); and in a failed invocation
\* every table whose write completed holds the rows written, every table of a
\* later stage what it held before the invocation.
C10_AbortNoRollback ==
    [][ /\ (status = "running" /\ status' = "failed") =>
              pc' = pc /\ written' = written /\ error' # "none"
        /\ status = "failed" =>
              status' = "idle" /\ out' = out
        /\ status' = "failed" =>
              /\ "songs" \in written' =>
                    out'["songs"] = [exists |-> TRUE, rows |-> SongsTable(df')]
              /\ "artists" \in written' =>
                    out'["artists"] = [exists |-> TRUE, rows |-> ArtistsTable(df')]
              /\ \A t \in Tables \ (written' \cup FailingTable(pc')) :
                    out'[t] = pre'[t]
      ]_vars

\* C10 witness: the artists write failed after the songs write had replaced an
\* earlier Song table by another one.
C10_Witness ==
    /\ status = "failed" /\ pc = "song_45"
    /\ written = {"songs"}
    /\ pre["songs"].exists
    /\ out["songs"] # pre["songs"]

====
